---- MODULE Spec2Model ----
(***************************************************************************)
(* Model of molmidial.midi.controller.MIDIController: the mapping table,   *)
(* the value conversion, the throttled dispatch to registered callbacks    *)
(* and the listener loop that feeds it.                                    *)
(*                                                                         *)
(* Python floats are binary64.  The model keeps the arithmetic of the code *)
(* (every operation rounded to nearest, ties to even) but at a reduced     *)
(* significand width Prec, so that rounding is something a check can see.  *)
(* Wall-clock time is counted in milliseconds.                             *)
(***************************************************************************)
EXTENDS Integers, Sequences, FiniteSets, TLC

\* ------------------------------------------------------------------ bounds
\* Width of the significand of the modelled floats (binary64 has 53 bits).
Prec == 8

\* ------------------------------------------------- floating-point arithmetic
\* A float is [m, e] with value m * 2^e; zero is [0, 0]; otherwise it is
\* normalised: 2^(Prec-1) <= |m| < 2^Prec.

Abs(n) == IF n < 0 THEN -n ELSE n

Sign(n) == IF n < 0 THEN -1 ELSE 1

RECURSIVE BitLen(_)
BitLen(a) == IF a = 0 THEN 0 ELSE 1 + BitLen(a \div 2)

FZero == [m |-> 0, e |-> 0]

\* The float nearest to n * 2^e (round to nearest, ties to even).
RoundDyadic(n, e) ==
    IF n = 0 THEN FZero
    ELSE LET a == Abs(n)
             b == BitLen(a)
         IN  IF b <= Prec
             THEN [m |-> Sign(n) * a * 2^(Prec - b), e |-> e - (Prec - b)]
             ELSE LET sh   == b - Prec
                      q    == a \div 2^sh
                      r    == a % 2^sh
                      half == 2^(sh - 1)
                      q2   == IF r > half \/ (r = half /\ q % 2 = 1)
                              THEN q + 1 ELSE q
                  IN  IF q2 = 2^Prec
                      THEN [m |-> Sign(n) * 2^(Prec - 1), e |-> e + sh + 1]
                      ELSE [m |-> Sign(n) * q2, e |-> e + sh]

\* Smallest k >= 0 with a * 2^k >= d * 2^(Prec+1).
RECURSIVE ScaleUp(_, _, _)
ScaleUp(a, d, k) ==
    IF a * 2^k >= d * 2^(Prec + 1) THEN k ELSE ScaleUp(a, d, k + 1)

\* The float nearest to the rational n / d (d > 0): the quotient is taken
\* with two guard bits and a sticky bit, then rounded.
FromRat(n, d) ==
    IF n = 0 THEN FZero
    ELSE LET a      == Abs(n)
             k      == ScaleUp(a, d, 0)
             q      == (a * 2^k) \div d
             sticky == IF (a * 2^k) % d = 0 THEN 0 ELSE 1
         IN  RoundDyadic(Sign(n) * (2 * q + sticky), -(k + 1))

FromInt(n) == RoundDyadic(n, 0)

FNeg(x) == [m |-> -(x.m), e |-> x.e]

FAbs(x) == [m |-> Abs(x.m), e |-> x.e]

FMul(x, y) == RoundDyadic(x.m * y.m, x.e + y.e)

\* x / y for y # 0.
FDiv(x, y) ==
    IF x.m = 0 THEN FZero
    ELSE LET r == FromRat(x.m * Sign(y.m), Abs(y.m))
         IN  [m |-> r.m, e |-> r.e + x.e - y.e]

\* x + y.  An operand below a quarter ulp of the other cannot change it.
FAdd(x, y) ==
    IF x.m = 0 THEN y
    ELSE IF y.m = 0 THEN x
    ELSE IF x.e - y.e > Prec + 2 THEN x
    ELSE IF y.e - x.e > Prec + 2 THEN y
    ELSE LET lo == IF x.e < y.e THEN x.e ELSE y.e
         IN  RoundDyadic(x.m * 2^(x.e - lo) + y.m * 2^(y.e - lo), lo)

FSub(x, y) == FAdd(x, FNeg(y))

\* x < y, exactly.
FLt(x, y) ==
    IF x.m = 0 THEN y.m > 0
    ELSE IF y.m = 0 THEN x.m < 0
    ELSE IF x.m < 0 /\ y.m > 0 THEN TRUE
    ELSE IF x.m > 0 /\ y.m < 0 THEN FALSE
    ELSE IF x.m > 0
         THEN x.e < y.e \/ (x.e = y.e /\ x.m < y.m)
         ELSE x.e > y.e \/ (x.e = y.e /\ x.m < y.m)

\* Python's max(x, y): x unless y is greater.
FMax(x, y) == IF FLt(x, y) THEN y ELSE x

\* The float written as the decimal literal n / d in the source.
Dec(n, d) == FromRat(n, d)

\* ------------------------------------------------------------ mapping table
\* A MIDIMapping; control_type, min_value, max_value and description are
\* never read by the dispatcher and are left out.
Mapping(cn, ch, fn, tmin, tmax) ==
    [control_number |-> cn, channel |-> ch, target_function |-> fn,
     target_min |-> tmin, target_max |-> tmax, enabled |-> TRUE]

Entry(name, mp) == [name |-> name, mapping |-> mp]

\* _setup_default_mappings with the controller number of "rotation_x" not
\* advanced: the entry shares controller 1 with "zoom".
DefaultMappings_shadowed ==
    << Entry("zoom", Mapping(1, 0, "camera_zoom", FromInt(-320), FromInt(100))),
       Entry("rotation_x", Mapping(1, 0, "camera_rot_x", FromInt(0), FromInt(360))),
       Entry("rotation_y", Mapping(3, 0, "camera_rot_y", FromInt(0), FromInt(360))),
       Entry("rotation_z", Mapping(4, 0, "camera_rot_z", FromInt(0), FromInt(360))),
       Entry("translate_x", Mapping(5, 0, "camera_trans_x", FromInt(-60), FromInt(60))),
       Entry("translate_y", Mapping(6, 0, "camera_trans_y", FromInt(-60), FromInt(60))),
       Entry("connolly_transparency",
             Mapping(7, 0, "connolly_transparency", Dec(0, 1), Dec(1, 1))),
       Entry("connolly_probe_radius",
             Mapping(8, 0, "connolly_probe_radius", Dec(5, 10), Dec(3, 1))),
       Entry("fog_density", Mapping(9, 0, "fog_density", Dec(0, 1), Dec(3, 10))),
       Entry("fog_near", Mapping(11, 0, "fog_near", FromInt(30), FromInt(100))),
       Entry("fog_far", Mapping(12, 0, "fog_far", FromInt(70), FromInt(200))),
       Entry("clip_z", Mapping(13, 0, "clip_z", FromInt(-100), FromInt(100))),
       Entry("clip_depth", Mapping(14, 0, "clip_depth", Dec(1, 1), Dec(100, 1))),
       Entry("isosurface_level",
             Mapping(10, 0, "isosurface_level", Dec(1, 100), Dec(1, 1))) >>

\* The table after _setup_default_mappings, in insertion order.
DefaultMappings ==
    << Entry("zoom", Mapping(1, 0, "camera_zoom", FromInt(-320), FromInt(100))),
       Entry("rotation_x", Mapping(2, 0, "camera_rot_x", FromInt(0), FromInt(360))),
       Entry("rotation_y", Mapping(3, 0, "camera_rot_y", FromInt(0), FromInt(360))),
       Entry("rotation_z", Mapping(4, 0, "camera_rot_z", FromInt(0), FromInt(360))),
       Entry("translate_x", Mapping(5, 0, "camera_trans_x", FromInt(-60), FromInt(60))),
       Entry("translate_y", Mapping(6, 0, "camera_trans_y", FromInt(-60), FromInt(60))),
       Entry("connolly_transparency",
             Mapping(7, 0, "connolly_transparency", Dec(0, 1), Dec(1, 1))),
       Entry("connolly_probe_radius",
             Mapping(8, 0, "connolly_probe_radius", Dec(5, 10), Dec(3, 1))),
       Entry("fog_density", Mapping(9, 0, "fog_density", Dec(0, 1), Dec(3, 10))),
       Entry("fog_near", Mapping(11, 0, "fog_near", FromInt(30), FromInt(100))),
       Entry("fog_far", Mapping(12, 0, "fog_far", FromInt(70), FromInt(200))),
       Entry("clip_z", Mapping(13, 0, "clip_z", FromInt(-100), FromInt(100))),
       Entry("clip_depth", Mapping(14, 0, "clip_depth", Dec(1, 1), Dec(100, 1))),
       Entry("isosurface_level",
             Mapping(10, 0, "isosurface_level", Dec(1, 100), Dec(1, 1))) >>

\* self._throttle_interval, in milliseconds.
throttle_interval == 50

\* self._expensive_controls after __init__, in milliseconds.
DefaultExpensiveControls ==
    [f \in {"connolly_transparency", "connolly_probe_radius", "isosurface_level"}
       |-> IF f = "isosurface_level" THEN 100 ELSE 200]

\* Indices of the entries of table tb that carry the name.
IndexOf(tb, name) == {i \in 1..Len(tb) : tb[i].name = name}

HasName(tb, name) == IndexOf(tb, name) # {}

\* self.mappings[name] = mapping: a dict keeps the position of an existing
\* key and appends a new one.
DictSet(tb, name, mp) ==
    IF HasName(tb, name)
    THEN [i \in 1..Len(tb) |-> IF tb[i].name = name THEN Entry(name, mp) ELSE tb[i]]
    ELSE Append(tb, Entry(name, mp))

\* del self.mappings[name]
DictDel(tb, name) == SelectSeq(tb, LAMBDA en : en.name # name)

\* self.mappings[name].enabled = flag
SetEnabled(tb, name, flag) ==
    [i \in 1..Len(tb) |->
        IF tb[i].name = name
        THEN Entry(name, [tb[i].mapping EXCEPT !.enabled = flag])
        ELSE tb[i]]

\* ------------------------------------------------------------- conversion
\* The literal 127.0.
F127 == FromInt(127)

\* _convert_midi_value with the raw value divided by 128.0.
convert_midi_value_div128(midi_value, mp) ==
    LET normalized == FDiv(FromInt(midi_value), FromInt(128))
    IN  FAdd(mp.target_min, FMul(normalized, FSub(mp.target_max, mp.target_min)))

\* _convert_midi_value: normalized = midi_value / 127.0;
\* target_min + normalized * (target_max - target_min).
convert_midi_value(midi_value, mp) ==
    LET normalized == FDiv(FromInt(midi_value), F127)
    IN  FAdd(mp.target_min, FMul(normalized, FSub(mp.target_max, mp.target_min)))

\* The condition of the loop body without the test of the enabled flag.
Matches_any(mp, control, channel) ==
    mp.control_number = control /\ mp.channel = channel

\* The condition of the loop body of _handle_control_change.
Matches(mp, control, channel) ==
    mp.control_number = control /\ mp.channel = channel /\ mp.enabled

\* The for loop without its break: the last entry that matches wins.
RECURSIVE FindMatch_last(_, _, _, _)
FindMatch_last(tb, control, channel, i) ==
    IF i > Len(tb) THEN 0
    ELSE LET later == FindMatch_last(tb, control, channel, i + 1)
         IN  IF later # 0 THEN later
             ELSE IF Matches(tb[i].mapping, control, channel) THEN i
             ELSE 0

\* The for loop of _handle_control_change: the index of the first entry, in
\* table order, from i on that matches, or 0 when the loop runs to its end.
RECURSIVE FindMatch(_, _, _, _)
FindMatch(tb, control, channel, i) ==
    IF i > Len(tb) THEN 0
    ELSE IF Matches(tb[i].mapping, control, channel) THEN i
    ELSE FindMatch(tb, control, channel, i + 1)

\* The literal 0.001.
Milli == Dec(1, 1000)

\* The noise floor without its absolute part.
NoiseFloor_relative(value) == FMul(FAbs(value), Milli)

\* max(0.001, abs(value) * 0.001)
NoiseFloor(value) == FMax(Milli, FMul(FAbs(value), Milli))

\* ------------------------------------------------------------------ bounds
\* Calls on the mapping table, registry and throttle settings, calls on the
\* connection, and transport messages of one behaviour.
MaxTableOps == 3

MaxConnOps == 2

MaxEvents == 3

\* Calls and messages of one behaviour, all together.
MaxSteps == 7
\* Calls on the table, calls on the connection, messages and their total in
\* a run that exercises the connection and the listener.
MaxLifeTableOps == 1
MaxLifeConnOps == 4
MaxLifeEvents == 2
MaxLifeSteps == 6

\* The same in a run that checks that a listener told to stop ends.
MaxStopTableOps == 1
MaxStopConnOps == 3
MaxStopEvents == 2
MaxStopSteps == 5

\* The same in a run with two mappings for one target function.
MaxShareTableOps == 3
MaxShareConnOps == 2
MaxShareEvents == 3
MaxShareSteps == 8

\* The same in a run that interleaves the calls with the steps of the
\* listener inside one event.
MaxRaceTableOps == 2
MaxRaceConnOps == 2
MaxRaceEvents == 2
MaxRaceSteps == 6

\* Characters of a JSON string and items of a list handed to Logger.json.
MaxChars == 3

MaxItems == 2

\* --------------------------------------------------------------- input sets
Controls == {1}

Channels == {0}

RawValues == {63, 64}

\* Time between two readings of time.time(), in milliseconds.
TimeSteps == {25, 50}

MsgTypes == {"control_change", "note_on", "note_off", "pitchwheel"}

\* Mappings the application adds at run time: "zoom" again, with a narrow
\* range, and a second mapping on the pair (1, 0) of "zoom", with a range
\* whose bounds are not integers, for another target function.
AddChoices ==
    { Entry("zoom", Mapping(1, 0, "camera_zoom", Dec(0, 1), Dec(1, 10))),
      Entry("iso_knob", Mapping(1, 0, "isosurface_level", FromInt(-5), Dec(4, 10))) }

MappingNames == {"zoom", "iso_knob"}

HandlerNames == {"camera_zoom", "isosurface_level"}

ThrottleNames == {"camera_zoom"}

\* set_throttle_interval takes any number: one below zero, one above the
\* default.
Intervals == {-25, 75}

PortNames == {"portA", "missing"}

\* Endpoints the transport can open.
AvailablePorts == {"portA"}
\* mido.get_input_names()
InputNames == << "portA" >>

\* Target ranges of the conversion check: defaults and run-time ranges.
ConvertRanges ==
    { <<FromInt(-320), FromInt(100)>>, <<FromInt(0), FromInt(360)>>,
      <<Dec(0, 1), Dec(3, 10)>>, <<Dec(1, 100), Dec(1, 1)>>,
      <<Dec(5, 10), Dec(3, 1)>>, <<FromInt(-5), Dec(4, 10)>>,
      <<Dec(0, 1), Dec(1, 10)>>, <<FromInt(100), FromInt(101)>> }

\* -------------------------------------------------------------------- state
VARIABLES
    MIDI_AVAILABLE,      \* module flag set at import
    mappings,            \* self.mappings, in dict order
    control_handlers,    \* self.control_handlers
    last_update_times,   \* self._last_update_times
    last_values,         \* self._last_values
    expensive_controls,  \* self._expensive_controls
    is_running,          \* self.is_running
    midi_input,          \* self.midi_input: a port handle, 0 for None
    current_port,        \* self.current_port, "None" for None
    midi_thread,         \* self.midi_thread: a thread index, 0 for None
    ports,               \* transport: state of every handle opened so far
    threads,             \* listener threads started so far
    now,                 \* the last reading of time.time(), in milliseconds
    ev,                  \* what the listener did with the last message
    reenabled,           \* names disabled and then enabled again (history)
    last_call,           \* time of the last call of each callback, raising or
                         \* not, since the throttle state was cleared (history)
    ret,                 \* the last call that returns a value, and the value
    available_ports,     \* self.available_ports
    budget,              \* how many calls and messages the run may make
    nTableOps,           \* calls on table, registry and throttle settings so far
    nConnOps,            \* calls on the connection so far
    cv,                  \* the conversion check: input, mapping, result
    hd,                  \* the event a listener thread is in the middle of handling
    lg                   \* a call of Logger.json: payload, silent, records logged

vars == << MIDI_AVAILABLE, mappings, control_handlers, last_update_times,
           last_values, expensive_controls, is_running, midi_input,
           current_port, midi_thread, ports, threads, now, ev, reenabled, last_call,
           ret, available_ports, budget, nTableOps, nConnOps, cv, lg, hd >>

\* The variables of the mapping table, registry and throttle state.
tableVars == << mappings, control_handlers, last_update_times, last_values,
                expensive_controls >>

\* The variables of the connection and the listener.
connVars == << is_running, midi_input, current_port, midi_thread, ports, threads >>

EmptyMap == [x \in {} |-> 0]

\* d[k] = v on a dict
Put(d, k, v) == [x \in DOMAIN d \cup {k} |-> IF x = k THEN v ELSE d[x]]

NoEvent ==
    [seq |-> 0, thread |-> 0, type |-> "none", control |-> 0, channel |-> 0,
     value |-> 0, name |-> "none", fn |-> "none", target |-> FZero,
     gate |-> "none", raised |-> FALSE, time |-> 0,
     matches |-> 0, had |-> FALSE, prev_time |-> 0, prev_value |-> FZero,
     reenabled |-> FALSE, after_raise |-> FALSE, resurrected |-> FALSE]

NoCv == [pc |-> "off", value |-> 0, lo |-> FZero, hi |-> FZero, result |-> FZero]

\* No event is being handled.  Otherwise: where the handling is, the message,
\* the dict iterator (next position, size of the dict when it was made, items
\* it has left), the mapping that matched, whether that mapping object is
\* still the table's and whether it is enabled, and the time read.
NoHd ==
    [pc |-> "idle", thread |-> 0, control |-> 0, channel |-> 0, value |-> 0,
     idx |-> 0, size |-> 0, left |-> 0, name |-> "none", fn |-> "none",
     target |-> FZero, held |-> FALSE, enabled |-> FALSE, time |-> 0]

NoLg == [pc |-> "off", data |-> [isstr |-> FALSE, body |-> << >>], silent |-> FALSE,
         out |-> << >>]

\* MIDIController.__init__
InitController ==
    /\ mappings = DefaultMappings
    /\ control_handlers = EmptyMap
    /\ last_update_times = EmptyMap
    /\ last_values = EmptyMap
    /\ expensive_controls = DefaultExpensiveControls
    /\ is_running = FALSE
    /\ midi_input = 0
    /\ current_port = "None"
    /\ midi_thread = 0
    /\ ports = << >>
    /\ threads = << >>
    /\ now = 0
    /\ ev = NoEvent
    /\ reenabled = {}
    /\ last_call = EmptyMap
    /\ ret = [op |-> "init", result |-> TRUE, names |-> << >>]
    /\ available_ports = << >>
    /\ nTableOps = 0
    /\ nConnOps = 0
    /\ hd = NoHd

\* The run of calls and messages the dispatch is checked on.
DispatchBudget ==
    [table |-> MaxTableOps, conn |-> MaxConnOps, events |-> MaxEvents,
     steps |-> MaxSteps]

\* The run of calls and messages the connection and the listener are
\* checked on.
LifeBudget ==
    [table |-> MaxLifeTableOps, conn |-> MaxLifeConnOps, events |-> MaxLifeEvents,
     steps |-> MaxLifeSteps]

\* The run of calls and messages the stopping of the listener is checked on.
StopBudget ==
    [table |-> MaxStopTableOps, conn |-> MaxStopConnOps, events |-> MaxStopEvents,
     steps |-> MaxStopSteps]

Init ==
    /\ MIDI_AVAILABLE \in BOOLEAN
    /\ InitController
    /\ budget = DispatchBudget
    /\ cv = NoCv
    /\ lg = NoLg

\* ------------------------------------------------------- caller operations
\* Calls and messages so far.
Steps == nTableOps + nConnOps + ev.seq

\* One more call on the table, the registry or the throttle settings.
TableOp ==
    /\ Steps < budget.steps
    /\ nTableOps < budget.table
    /\ nTableOps' = nTableOps + 1
    /\ UNCHANGED << nConnOps, ret >>

\* One more call on the connection.
ConnOp ==
    /\ Steps < budget.steps
    /\ nConnOps < budget.conn
    /\ nConnOps' = nConnOps + 1
    /\ UNCHANGED nTableOps

\* One more call on the connection, returning result.
Returns(op, result) ==
    /\ ConnOp
    /\ ret' = [op |-> op, result |-> result, names |-> << >>]

\* The handling in flight after self.mappings[name] was assigned or deleted:
\* the mapping it holds is no longer the table's, and an entry deleted
\* before the iterator's position moves the later entries up.
Unhold(name) ==
    LET moved == IF hd.pc = "scan" /\ \E i \in IndexOf(mappings, name) : i < hd.idx
                 THEN [hd EXCEPT !.idx = @ - 1] ELSE hd
    IN  IF hd.held /\ hd.name = name THEN [moved EXCEPT !.held = FALSE] ELSE moved

\* The handling in flight after self.mappings[name].enabled = flag.
Flagged(name, flag) ==
    IF hd.held /\ hd.name = name THEN [hd EXCEPT !.enabled = flag] ELSE hd

add_mapping(en) ==
    /\ TableOp
    /\ mappings' = DictSet(mappings, en.name, en.mapping)
    /\ reenabled' = reenabled \ {en.name}
    /\ hd' = IF hd.held /\ hd.name = en.name THEN [hd EXCEPT !.held = FALSE] ELSE hd
    /\ UNCHANGED << MIDI_AVAILABLE, lg, budget, available_ports, last_call, control_handlers, last_update_times,
                    last_values, expensive_controls, connVars, now, ev, cv >>

\* remove_mapping dropping the throttle state as well.
remove_mapping_forgets(name) ==
    /\ TableOp
    /\ mappings' = IF HasName(mappings, name) THEN DictDel(mappings, name)
                   ELSE mappings
    /\ reenabled' = reenabled \ {name}
    /\ hd' = Unhold(name)
    /\ last_update_times' = EmptyMap
    /\ last_values' = EmptyMap
    /\ UNCHANGED << MIDI_AVAILABLE, lg, budget, available_ports, last_call, control_handlers,
                    expensive_controls, connVars, now, ev, cv >>

remove_mapping(name) ==
    /\ TableOp
    /\ mappings' = IF HasName(mappings, name) THEN DictDel(mappings, name)
                   ELSE mappings
    /\ reenabled' = reenabled \ {name}
    /\ hd' = Unhold(name)
    /\ UNCHANGED << MIDI_AVAILABLE, lg, budget, available_ports, last_call, control_handlers, last_update_times,
                    last_values, expensive_controls, connVars, now, ev, cv >>

set_control_handler(function_name, handler) ==
    /\ TableOp
    /\ control_handlers' = Put(control_handlers, function_name, handler)
    /\ UNCHANGED << MIDI_AVAILABLE, lg, hd, budget, available_ports, mappings, last_update_times, last_values,
                    expensive_controls, connVars, now, ev, reenabled, last_call, cv >>

enable_mapping(name) ==
    /\ TableOp
    /\ mappings' = IF HasName(mappings, name) THEN SetEnabled(mappings, name, TRUE)
                   ELSE mappings
    /\ reenabled' = IF \E i \in IndexOf(mappings, name) : ~mappings[i].mapping.enabled
                     THEN reenabled \cup {name} ELSE reenabled
    /\ hd' = Flagged(name, TRUE)
    /\ UNCHANGED << MIDI_AVAILABLE, lg, budget, available_ports, last_call, control_handlers, last_update_times,
                    last_values, expensive_controls, connVars, now, ev, cv >>

disable_mapping(name) ==
    /\ TableOp
    /\ mappings' = IF HasName(mappings, name) THEN SetEnabled(mappings, name, FALSE)
                   ELSE mappings
    /\ reenabled' = reenabled \ {name}
    /\ hd' = Flagged(name, FALSE)
    /\ UNCHANGED << MIDI_AVAILABLE, lg, budget, available_ports, last_call, control_handlers, last_update_times,
                    last_values, expensive_controls, connVars, now, ev, cv >>

set_throttle_interval(control_name, interval) ==
    /\ TableOp
    /\ expensive_controls' = Put(expensive_controls, control_name, interval)
    /\ UNCHANGED << MIDI_AVAILABLE, lg, hd, budget, available_ports, mappings, control_handlers, last_update_times,
                    last_values, connVars, now, ev, reenabled, last_call, cv >>

\* clear_throttle_state clearing the times only.
clear_throttle_state_times ==
    /\ TableOp
    /\ last_update_times' = EmptyMap
    /\ UNCHANGED last_values
    /\ last_call' = EmptyMap
    /\ UNCHANGED << MIDI_AVAILABLE, lg, hd, budget, available_ports, mappings, control_handlers, expensive_controls,
                    connVars, now, ev, reenabled, cv >>

clear_throttle_state ==
    /\ TableOp
    /\ last_update_times' = EmptyMap
    /\ last_values' = EmptyMap
    /\ last_call' = EmptyMap
    /\ UNCHANGED << MIDI_AVAILABLE, lg, hd, budget, available_ports, mappings, control_handlers, expensive_controls,
                    connVars, now, ev, reenabled, cv >>

\* The body of disconnect on the connection state c; closeOk is whether the
\* transport's close() returns (TRUE) or raises (FALSE).
Disconnected(c, closeOk) ==
    IF c.midi_input # 0 /\ closeOk
    THEN [ports |-> [c.ports EXCEPT ![c.midi_input] = "closed"],
          midi_input |-> 0, current_port |-> "None"]
    ELSE c

Conn == [ports |-> ports, midi_input |-> midi_input, current_port |-> current_port]

disconnect(closeOk) ==
    /\ ConnOp
    /\ UNCHANGED ret
    /\ LET c == Disconnected(Conn, closeOk)
       IN  /\ ports' = c.ports
           /\ midi_input' = c.midi_input
           /\ current_port' = c.current_port
    /\ UNCHANGED << MIDI_AVAILABLE, lg, hd, budget, available_ports, tableVars, is_running, midi_thread, threads,
                    now, ev, reenabled, last_call, cv >>

\* connect_to_port answering True also when the endpoint could not be opened.
connect_to_port_unchecked(port_name, closeOk) ==
    IF ~MIDI_AVAILABLE
    THEN /\ Returns("connect_to_port", FALSE)
         /\ UNCHANGED << MIDI_AVAILABLE, lg, hd, budget, available_ports, tableVars, connVars,
                         now, ev, reenabled, last_call, cv >>
    ELSE LET c == Disconnected(Conn, closeOk)
         IN  /\ Returns("connect_to_port", TRUE)
             /\ IF port_name \in AvailablePorts
                THEN /\ ports' = Append(c.ports, "open")
                     /\ midi_input' = Len(c.ports) + 1
                     /\ current_port' = port_name
                ELSE /\ ports' = c.ports
                     /\ midi_input' = c.midi_input
                     /\ current_port' = c.current_port
             /\ UNCHANGED << MIDI_AVAILABLE, lg, hd, budget, available_ports, tableVars,
                             is_running, midi_thread, threads, now, ev, reenabled,
                             last_call, cv >>

\* connect_to_port without the test of MIDI_AVAILABLE.
connect_to_port_unguarded(port_name, closeOk) ==
    LET c == Disconnected(Conn, closeOk)
    IN  /\ IF port_name \in AvailablePorts
           THEN /\ Returns("connect_to_port", TRUE)
                /\ ports' = Append(c.ports, "open")
                /\ midi_input' = Len(c.ports) + 1
                /\ current_port' = port_name
           ELSE /\ Returns("connect_to_port", FALSE)
                /\ ports' = c.ports
                /\ midi_input' = c.midi_input
                /\ current_port' = c.current_port
        /\ UNCHANGED << MIDI_AVAILABLE, lg, hd, budget, available_ports, tableVars,
                        is_running, midi_thread, threads, now, ev, reenabled,
                        last_call, cv >>

\* namesOk is whether mido.get_input_names() returns (TRUE) or raises.
list_available_ports(namesOk) ==
    /\ ConnOp
    /\ IF MIDI_AVAILABLE /\ namesOk
       THEN /\ available_ports' = InputNames
            /\ ret' = [op |-> "list_available_ports", result |-> TRUE,
                       names |-> InputNames]
       ELSE /\ UNCHANGED available_ports
            /\ ret' = [op |-> "list_available_ports", result |-> TRUE,
                       names |-> << >>]
    /\ UNCHANGED << MIDI_AVAILABLE, lg, hd, budget, tableVars, connVars, now, ev, reenabled,
                    last_call, cv >>

connect_to_port(port_name, closeOk) ==
    IF ~MIDI_AVAILABLE
    THEN /\ Returns("connect_to_port", FALSE)
         /\ UNCHANGED << MIDI_AVAILABLE, lg, hd, budget, available_ports, tableVars, connVars, now, ev, reenabled, last_call, cv >>
    ELSE LET c == Disconnected(Conn, closeOk)
         IN  /\ IF port_name \in AvailablePorts
                THEN /\ Returns("connect_to_port", TRUE)
                     /\ ports' = Append(c.ports, "open")
                     /\ midi_input' = Len(c.ports) + 1
                     /\ current_port' = port_name
                ELSE /\ Returns("connect_to_port", FALSE)
                     /\ ports' = c.ports
                     /\ midi_input' = c.midi_input
                     /\ current_port' = c.current_port
             /\ UNCHANGED << MIDI_AVAILABLE, lg, hd, budget, available_ports, tableVars, is_running, midi_thread,
                             threads, now, ev, reenabled, last_call, cv >>

\* start_listening without the test of is_running.
start_listening_again ==
    IF midi_input = 0
    THEN /\ Returns("start_listening", FALSE)
         /\ UNCHANGED << MIDI_AVAILABLE, lg, hd, budget, available_ports, tableVars, connVars,
                         now, ev, reenabled, last_call, cv >>
    ELSE /\ Returns("start_listening", TRUE)
         /\ is_running' = TRUE
         /\ threads' = Append(threads, [state |-> "started", port |-> 0])
         /\ midi_thread' = Len(threads) + 1
         /\ UNCHANGED << MIDI_AVAILABLE, lg, hd, budget, available_ports, tableVars,
                         midi_input, current_port, ports, now, ev, reenabled,
                         last_call, cv >>

start_listening ==
    IF midi_input = 0 \/ is_running
    THEN /\ Returns("start_listening", FALSE)
         /\ UNCHANGED << MIDI_AVAILABLE, lg, hd, budget, available_ports, tableVars, connVars, now, ev, reenabled, last_call, cv >>
    ELSE /\ Returns("start_listening", TRUE)
         /\ is_running' = TRUE
         /\ threads' = Append(threads, [state |-> "started", port |-> 0])
         /\ midi_thread' = Len(threads) + 1
         /\ UNCHANGED << MIDI_AVAILABLE, lg, hd, budget, available_ports, tableVars, midi_input, current_port,
                         ports, now, ev, reenabled, last_call, cv >>

\* stop_listening that drops the connection as well.
stop_listening_disconnects ==
    /\ ConnOp
    /\ UNCHANGED ret
    /\ is_running' = FALSE
    /\ midi_input' = 0
    /\ current_port' = "None"
    /\ UNCHANGED << MIDI_AVAILABLE, lg, hd, budget, available_ports, tableVars, midi_thread,
                    ports, threads, now, ev, reenabled, last_call, cv >>

\* The join returns after at most a second whether or not the thread ended.
stop_listening ==
    /\ ConnOp
    /\ UNCHANGED ret
    /\ is_running' = FALSE
    /\ UNCHANGED << MIDI_AVAILABLE, lg, hd, budget, available_ports, tableVars, midi_input, current_port,
                    midi_thread, ports, threads, now, ev, reenabled, last_call, cv >>

is_connected == midi_input # 0 /\ current_port # "None"

is_listening == is_running

\* ----------------------------------------------------------------- dispatch
\* The global interval for every function.
ThrottleInterval_global(function_name) == throttle_interval

\* self._expensive_controls.get(function_name, self._throttle_interval)
ThrottleInterval(function_name) ==
    IF function_name \in DOMAIN expensive_controls
    THEN expensive_controls[function_name]
    ELSE throttle_interval

\* The gates with a throttle test that also drops an update exactly one
\* interval after the last.
Gate_inclusive(function_name, value, current_time) ==
    IF function_name \notin DOMAIN control_handlers THEN "nohandler"
    ELSE IF /\ function_name \in DOMAIN last_update_times
            /\ current_time - last_update_times[function_name]
                  <= ThrottleInterval(function_name)
         THEN "throttled"
    ELSE IF /\ function_name \in DOMAIN last_values
            /\ FLt(FAbs(FSub(value, last_values[function_name])), NoiseFloor(value))
         THEN "noise"
    ELSE "invoked"

\* The gates without the test for a registered handler.
Gate_unregistered(function_name, value, current_time) ==
    IF /\ function_name \in DOMAIN last_update_times
       /\ current_time - last_update_times[function_name]
             < ThrottleInterval(function_name)
    THEN "throttled"
    ELSE IF /\ function_name \in DOMAIN last_values
            /\ FLt(FAbs(FSub(value, last_values[function_name])), NoiseFloor(value))
         THEN "noise"
    ELSE "invoked"

\* The early returns of _call_control_handler, in order; "invoked" when the
\* callback is called.
Gate(function_name, value, current_time) ==
    IF function_name \notin DOMAIN control_handlers THEN "nohandler"
    ELSE IF /\ function_name \in DOMAIN last_update_times
            /\ current_time - last_update_times[function_name]
                  < ThrottleInterval(function_name)
         THEN "throttled"
    ELSE IF /\ function_name \in DOMAIN last_values
            /\ FLt(FAbs(FSub(value, last_values[function_name])), NoiseFloor(value))
         THEN "noise"
    ELSE "invoked"

\* _handle_control_change up to the call of the callback: the mapping that
\* matched, the converted value and what _call_control_handler does with it.
HandleControlChange(control, channel, value, current_time) ==
    LET i == FindMatch(mappings, control, channel, 1)
    IN  IF i = 0
        THEN [name |-> "none", fn |-> "none", target |-> FZero, gate |-> "nomatch"]
        ELSE LET mp     == mappings[i].mapping
                 target == convert_midi_value(value, mp)
             IN  [name |-> mappings[i].name, fn |-> mp.target_function,
                  target |-> target,
                  gate |-> Gate(mp.target_function, target, current_time)]

Messages ==
    [type : {"control_change"}, control : Controls, channel : Channels,
     value : RawValues]
    \cup [type : MsgTypes \ {"control_change"}, control : {0}, channel : {0},
          value : {0}]

\* A listener thread is started by a start_listening call.
ThreadIds == 1..Len(threads)

Alive(t) == t \in DOMAIN threads /\ threads[t].state \in {"started", "running"}

\* The thread ends without the finally clause.
Exit_keeps_flag(t, how) ==
    /\ threads' = [threads EXCEPT ![t].state = how]
    /\ UNCHANGED is_running

\* threads[t] ends: the finally clause of _midi_loop.
Exit(t, how) ==
    /\ threads' = [threads EXCEPT ![t].state = how]
    /\ is_running' = FALSE

\* What the listener did with message msg: the message, the mapping that
\* matched (h), the gate that let it through or dropped it, whether the
\* callback raised, and, for the record, what the dispatch found: how many
\* enabled mappings matched, the throttle entry of the function, whether the
\* mapping had been disabled and enabled again, whether a callback raised
\* earlier in this thread, and whether the value is one that the noise gate
\* dropped at the previous message and whose throttle entry is gone since.
Observed(t, msg, h, raised, current_time) ==
    [seq |-> ev.seq + 1, thread |-> t, type |-> msg.type, control |-> msg.control,
     channel |-> msg.channel, value |-> msg.value, name |-> h.name, fn |-> h.fn,
     target |-> h.target, gate |-> h.gate, raised |-> raised, time |-> current_time,
     matches |-> IF h.gate \in {"stopped", "ignored"} THEN 0
                 ELSE Cardinality({i \in 1..Len(mappings) :
                         Matches(mappings[i].mapping, msg.control, msg.channel)}),
     had |-> h.fn \in DOMAIN last_update_times,
     prev_time |-> IF h.fn \in DOMAIN last_update_times
                   THEN last_update_times[h.fn] ELSE 0,
     prev_value |-> IF h.fn \in DOMAIN last_values THEN last_values[h.fn] ELSE FZero,
     reenabled |-> h.name \in reenabled,
     after_raise |-> ev.thread = t /\ (ev.raised \/ ev.after_raise),
     resurrected |-> /\ ev.gate = "noise"
                     /\ ev.fn = h.fn
                     /\ ev.target = h.target
                     /\ h.fn \notin DOMAIN last_values]

NoDispatch(gate) == [name |-> "none", fn |-> "none", target |-> FZero, gate |-> gate]

\* The try block of _call_control_handler with the except clause left out:
\* an exception of the callback leaves the loop.
CallHandler_uncaught(t, h, raises, current_time) ==
    /\ IF h.gate = "invoked" /\ ~raises
       THEN /\ last_update_times' = Put(last_update_times, h.fn, current_time)
            /\ last_values' = Put(last_values, h.fn, h.target)
       ELSE UNCHANGED << last_update_times, last_values >>
    /\ IF raises THEN Exit(t, "raised") ELSE UNCHANGED << threads, is_running >>

\* The try block recording last time and last value of a throttled update too.
CallHandler_records_dropped(t, h, raises, current_time) ==
    /\ IF h.gate \in {"invoked", "throttled"} /\ ~raises
       THEN /\ last_update_times' = Put(last_update_times, h.fn, current_time)
            /\ last_values' = Put(last_values, h.fn, h.target)
       ELSE UNCHANGED << last_update_times, last_values >>
    /\ UNCHANGED << threads, is_running >>

\* The try block recording last time and last value before the callback
\* is called.
CallHandler_records_first(t, h, raises, current_time) ==
    /\ IF h.gate = "invoked"
       THEN /\ last_update_times' = Put(last_update_times, h.fn, current_time)
            /\ last_values' = Put(last_values, h.fn, h.target)
       ELSE UNCHANGED << last_update_times, last_values >>
    /\ UNCHANGED << threads, is_running >>

\* The try block keeping last time and last value under the name of the
\* mapping.
CallHandler_by_mapping(t, h, raises, current_time) ==
    /\ IF h.gate = "invoked" /\ ~raises
       THEN /\ last_update_times' = Put(last_update_times, h.name, current_time)
            /\ last_values' = Put(last_values, h.name, h.target)
       ELSE UNCHANGED << last_update_times, last_values >>
    /\ UNCHANGED << threads, is_running >>

\* The try block of _call_control_handler in thread t: the callback is
\* called when no gate dropped the value; when it returns, last time and
\* last value are recorded; when it raises, the exception is logged.
CallHandler(t, h, raises, current_time) ==
    /\ IF h.gate = "invoked" /\ ~raises
       THEN /\ last_update_times' = Put(last_update_times, h.fn, current_time)
            /\ last_values' = Put(last_values, h.fn, h.target)
       ELSE UNCHANGED << last_update_times, last_values >>
    /\ UNCHANGED << threads, is_running >>

\* The thread starts to iterate self.midi_input; iterating None raises.
LoopEnter(t) ==
    /\ t \in DOMAIN threads
    /\ threads[t].state = "started"
    /\ IF midi_input = 0
       THEN Exit(t, "raised")
       ELSE /\ threads' = [threads EXCEPT ![t] = [state |-> "running",
                                                   port |-> midi_input]]
            /\ UNCHANGED is_running
    /\ UNCHANGED << MIDI_AVAILABLE, lg, hd, budget, available_ports, tableVars, midi_input, current_port,
                    midi_thread, ports, now, ev, reenabled, last_call, ret, nTableOps, nConnOps, cv >>

\* Whether _call_control_handler gets as far as reading time.time().
ReadsClock(gate) == gate \in {"throttled", "noise", "invoked"}

\* The loop with handlers of the other kinds of message that raise.
LoopReceive_notes_raise(t, msg, dt, raises) ==
    /\ t \in DOMAIN threads
    /\ threads[t].state = "running"
    /\ ports[threads[t].port] = "open"
    /\ Steps < budget.steps
    /\ ev.seq < budget.events
    /\ IF ~is_running
       THEN /\ ~raises /\ dt = 0
            /\ Exit(t, "stopped")
            /\ ev' = Observed(t, msg, NoDispatch("stopped"), FALSE, now)
            /\ UNCHANGED << last_update_times, last_values, last_call, now >>
       ELSE IF msg.type = "control_change"
       THEN LET current_time == now + dt
                h == HandleControlChange(msg.control, msg.channel, msg.value,
                                         current_time)
            IN  /\ raises => h.gate = "invoked"
                /\ (dt # 0) <=> ReadsClock(h.gate)
                /\ now' = current_time
                /\ ev' = Observed(t, msg, h, raises, current_time)
                /\ CallHandler(t, h, raises, current_time)
                /\ last_call' = IF h.gate = "invoked"
                                THEN Put(last_call, h.fn, current_time)
                                ELSE last_call
       ELSE /\ ~raises /\ dt = 0
            /\ ev' = Observed(t, msg, NoDispatch("ignored"), FALSE, now)
            /\ Exit(t, "raised")
            /\ UNCHANGED << last_update_times, last_values, last_call, now >>
    /\ UNCHANGED << MIDI_AVAILABLE, lg, hd, budget, available_ports, mappings, control_handlers, expensive_controls,
                    midi_input, current_port, midi_thread, ports, reenabled, ret,
                    nTableOps, nConnOps, cv >>

\* The loop without the test of is_running.
LoopReceive_deaf(t, msg, dt, raises) ==
    /\ t \in DOMAIN threads
    /\ threads[t].state = "running"
    /\ ports[threads[t].port] = "open"
    /\ Steps < budget.steps
    /\ ev.seq < budget.events
    /\ IF msg.type = "control_change"
       THEN LET current_time == now + dt
                h == HandleControlChange(msg.control, msg.channel, msg.value,
                                         current_time)
            IN  /\ raises => h.gate = "invoked"
                /\ (dt # 0) <=> ReadsClock(h.gate)
                /\ now' = current_time
                /\ ev' = Observed(t, msg, h, raises, current_time)
                /\ CallHandler(t, h, raises, current_time)
                /\ last_call' = IF h.gate = "invoked"
                                THEN Put(last_call, h.fn, current_time)
                                ELSE last_call
       ELSE /\ ~raises /\ dt = 0
            /\ ev' = Observed(t, msg, NoDispatch("ignored"), FALSE, now)
            /\ UNCHANGED << last_update_times, last_values, last_call, threads,
                            is_running, now >>
    /\ UNCHANGED << MIDI_AVAILABLE, lg, hd, budget, available_ports, mappings, control_handlers, expensive_controls,
                    midi_input, current_port, midi_thread, ports, reenabled, ret,
                    nTableOps, nConnOps, cv >>

\* One iteration of the loop of _midi_loop on message msg.  dt is the time
\* since the last reading of the clock when the iteration reads it, and 0
\* when it does not; raises is whether the callback, if called, raises.
LoopReceive(t, msg, dt, raises) ==
    /\ t \in DOMAIN threads
    /\ threads[t].state = "running"
    /\ ports[threads[t].port] = "open"
    /\ Steps < budget.steps
    /\ ev.seq < budget.events
    /\ IF ~is_running
       THEN /\ ~raises /\ dt = 0
            /\ Exit(t, "stopped")
            /\ ev' = Observed(t, msg, NoDispatch("stopped"), FALSE, now)
            /\ UNCHANGED << last_update_times, last_values, last_call, now >>
       ELSE IF msg.type = "control_change"
       THEN LET current_time == now + dt
                h == HandleControlChange(msg.control, msg.channel, msg.value,
                                         current_time)
            IN  /\ raises => h.gate = "invoked"
                /\ (dt # 0) <=> ReadsClock(h.gate)
                /\ now' = current_time
                /\ ev' = Observed(t, msg, h, raises, current_time)
                /\ CallHandler(t, h, raises, current_time)
                /\ last_call' = IF h.gate = "invoked"
                                THEN Put(last_call, h.fn, current_time)
                                ELSE last_call
       ELSE /\ ~raises /\ dt = 0
            /\ ev' = Observed(t, msg, NoDispatch("ignored"), FALSE, now)
            /\ UNCHANGED << last_update_times, last_values, last_call, threads,
                            is_running, now >>
    /\ UNCHANGED << MIDI_AVAILABLE, lg, hd, budget, available_ports, mappings, control_handlers, expensive_controls,
                    midi_input, current_port, midi_thread, ports, reenabled, ret,
                    nTableOps, nConnOps, cv >>

\* The transport's stream ends: the for loop runs out.
LoopStreamEnds(t) ==
    /\ t \in DOMAIN threads
    /\ threads[t].state = "running"
    /\ Exit(t, "ended")
    /\ UNCHANGED << MIDI_AVAILABLE, lg, hd, budget, available_ports, tableVars, midi_input, current_port,
                    midi_thread, ports, now, ev, reenabled, last_call, ret, nTableOps, nConnOps, cv >>

\* The transport raises inside the loop: the except clause.
LoopStreamRaises(t) ==
    /\ t \in DOMAIN threads
    /\ threads[t].state = "running"
    /\ Exit(t, "raised")
    /\ UNCHANGED << MIDI_AVAILABLE, lg, hd, budget, available_ports, tableVars, midi_input, current_port,
                    midi_thread, ports, now, ev, reenabled, last_call, ret, nTableOps, nConnOps, cv >>

\* ------------------------------------------------------------ specification
Next ==
    \/ \E en \in AddChoices : add_mapping(en)
    \/ \E name \in MappingNames : remove_mapping(name)
    \/ \E fn \in HandlerNames : set_control_handler(fn, "cb")
    \/ \E name \in MappingNames : enable_mapping(name)
    \/ \E name \in MappingNames : disable_mapping(name)
    \/ \E fn \in ThrottleNames, iv \in Intervals : set_throttle_interval(fn, iv)
    \/ clear_throttle_state
    \/ \E p \in PortNames, ok \in BOOLEAN : connect_to_port(p, ok)
    \/ \E ok \in BOOLEAN : disconnect(ok)
    \/ \E ok \in BOOLEAN : list_available_ports(ok)
    \/ start_listening
    \/ stop_listening
    \/ \E t \in ThreadIds : LoopEnter(t)
    \/ \E t \in ThreadIds, msg \in Messages, dt \in TimeSteps \cup {0},
          raises \in BOOLEAN : LoopReceive(t, msg, dt, raises)
    \/ \E t \in ThreadIds : LoopStreamEnds(t)
    \/ \E t \in ThreadIds : LoopStreamRaises(t)

Spec == Init /\ [][Next]_vars

\* ------------------------------------- the connection and the listener
InitLife ==
    /\ MIDI_AVAILABLE \in BOOLEAN
    /\ InitController
    /\ budget = LifeBudget
    /\ cv = NoCv
    /\ lg = NoLg

SpecLife == InitLife /\ [][Next]_vars

\* ------------------------------------ two mappings for one target function
\* A second mapping for the target function of "zoom", on a controller
\* number no default mapping uses, with a range of its own.
ShareChoices ==
    { Entry("zoom_fine", Mapping(15, 0, "camera_zoom", Dec(0, 1), Dec(1, 10))) }

ShareHandlers == {"camera_zoom", "camera_rot_x"}

\* Messages for "zoom", and one each for "rotation_x" and the second mapping.
ShareMessages ==
    [type : {"control_change"}, control : {1}, channel : Channels, value : RawValues]
    \cup [type : {"control_change"}, control : {2, 15}, channel : Channels,
          value : {64}]

ShareBudget ==
    [table |-> MaxShareTableOps, conn |-> MaxShareConnOps,
     events |-> MaxShareEvents, steps |-> MaxShareSteps]

InitShare ==
    /\ MIDI_AVAILABLE = TRUE
    /\ InitController
    /\ budget = ShareBudget
    /\ cv = NoCv
    /\ lg = NoLg

NextShare ==
    \/ \E en \in ShareChoices : add_mapping(en)
    \/ \E fn \in ShareHandlers : set_control_handler(fn, "cb")
    \/ clear_throttle_state
    \/ connect_to_port("portA", TRUE)
    \/ start_listening
    \/ \E t \in ThreadIds : LoopEnter(t)
    \/ \E t \in ThreadIds, msg \in ShareMessages, dt \in TimeSteps \cup {0},
          raises \in BOOLEAN : LoopReceive(t, msg, dt, raises)

SpecShare == InitShare /\ [][NextShare]_vars

\* ------------------------------------- the two threads, statement by statement
\* The listener thread and the caller's thread share the mapping table and
\* the throttle state without a lock.  Here the handling of one control
\* change is taken apart at the points where the other thread can come in:
\* every step of the dict iterator, every test and every read of the
\* throttle state, the call of the callback and the two assignments after.
RaceChoices ==
    { Entry("rot_fine", Mapping(2, 0, "camera_rot_x", Dec(0, 1), Dec(1, 10))),
      Entry("rotation_x", Mapping(2, 0, "camera_rot_x", FromInt(0), FromInt(360))) }

RaceNames == {"zoom", "rotation_x"}

RaceMessages ==
    [type : {"control_change"}, control : {2}, channel : Channels, value : RawValues]

\* The value 0.0 of time.time() on the clock of the model, which starts at
\* the construction of the controller: what a defaultdict(float) answers for
\* a key it does not hold.
Epoch == -1000000

RaceBudget ==
    [table |-> MaxRaceTableOps, conn |-> MaxRaceConnOps,
     events |-> MaxRaceEvents, steps |-> MaxRaceSteps]

HdMsg ==
    [type |-> "control_change", control |-> hd.control, channel |-> hd.channel,
     value |-> hd.value]

HdMatch(gate) == [name |-> hd.name, fn |-> hd.fn, target |-> hd.target, gate |-> gate]

\* The handling of the event ends here: what the listener did with it.
Finish(t, h, raised) ==
    /\ ev' = Observed(t, HdMsg, h, raised, hd.time)
    /\ hd' = NoHd

\* An exception leaves _handle_control_change: the except and finally
\* clauses of _midi_loop.
Crash(t) ==
    /\ Finish(t, HdMatch("crashed"), FALSE)
    /\ Exit(t, "raised")

\* The loop takes the next message from the port.
RaceTake(t, msg) ==
    /\ t \in DOMAIN threads
    /\ threads[t].state = "running"
    /\ ports[threads[t].port] = "open"
    /\ hd.pc = "idle"
    /\ Steps < budget.steps
    /\ ev.seq < budget.events
    /\ IF ~is_running
       THEN /\ Exit(t, "stopped")
            /\ ev' = Observed(t, msg, NoDispatch("stopped"), FALSE, now)
            /\ UNCHANGED hd
       ELSE IF msg.type = "control_change"
       THEN /\ hd' = [NoHd EXCEPT !.pc = "scan", !.thread = t,
                                  !.control = msg.control, !.channel = msg.channel,
                                  !.value = msg.value, !.idx = 1,
                                  !.size = Len(mappings), !.left = Len(mappings),
                                  !.time = now]
            /\ UNCHANGED << ev, threads, is_running >>
       ELSE /\ ev' = Observed(t, msg, NoDispatch("ignored"), FALSE, now)
            /\ UNCHANGED << hd, threads, is_running >>
    /\ UNCHANGED << MIDI_AVAILABLE, lg, budget, available_ports, tableVars, midi_input,
                    current_port, midi_thread, ports, now, reenabled, last_call, ret,
                    nTableOps, nConnOps, cv >>

\* One step of the iterator of self.mappings.items() and the test of the
\* entry it yields.  The iterator raises RuntimeError when the dict has
\* another size than at its start, and when it finds an entry after it
\* yielded as many as the dict had.
RaceScan(t) ==
    /\ hd.pc = "scan" /\ hd.thread = t
    /\ IF Len(mappings) # hd.size \/ (hd.idx <= Len(mappings) /\ hd.left = 0)
       THEN Crash(t)
       ELSE IF hd.idx > Len(mappings)
       THEN /\ Finish(t, NoDispatch("nomatch"), FALSE)
            /\ UNCHANGED << threads, is_running >>
       ELSE LET mp == mappings[hd.idx].mapping IN
            /\ hd' = IF Matches(mp, hd.control, hd.channel)
                     THEN [hd EXCEPT !.pc = "gate", !.name = mappings[hd.idx].name,
                                     !.fn = mp.target_function,
                                     !.target = convert_midi_value(hd.value, mp),
                                     !.held = TRUE, !.enabled = TRUE]
                     ELSE [hd EXCEPT !.idx = @ + 1, !.left = @ - 1]
            /\ UNCHANGED << ev, threads, is_running >>
    /\ UNCHANGED << MIDI_AVAILABLE, lg, budget, available_ports, tableVars, midi_input,
                    current_port, midi_thread, ports, now, reenabled, last_call, ret,
                    nTableOps, nConnOps, cv >>

\* _call_control_handler: the test for a handler, the reading of the clock
\* and the test for a last time.
RaceGate(t, dt) ==
    /\ hd.pc = "gate" /\ hd.thread = t
    /\ IF hd.fn \notin DOMAIN control_handlers
       THEN /\ dt = 0
            /\ Finish(t, HdMatch("nohandler"), FALSE)
            /\ UNCHANGED now
       ELSE /\ dt # 0
            /\ now' = now + dt
            /\ hd' = [hd EXCEPT !.time = now + dt,
                                !.pc = IF hd.fn \in DOMAIN last_update_times
                                       THEN "throttle" ELSE "noise"]
            /\ UNCHANGED ev
    /\ UNCHANGED << MIDI_AVAILABLE, lg, budget, available_ports, tableVars, connVars,
                    reenabled, last_call, ret, nTableOps, nConnOps, cv >>

\* The interval is read, then the last time: indexing the defaultdict
\* inserts 0.0 for a key that has gone since the test.
RaceThrottle(t) ==
    /\ hd.pc = "throttle" /\ hd.thread = t
    /\ LET last == IF hd.fn \in DOMAIN last_update_times
                   THEN last_update_times[hd.fn] ELSE Epoch
       IN  /\ last_update_times' = Put(last_update_times, hd.fn, last)
           /\ IF hd.time - last < ThrottleInterval(hd.fn)
              THEN Finish(t, HdMatch("throttled"), FALSE)
              ELSE /\ hd' = [hd EXCEPT !.pc = "noise"]
                   /\ UNCHANGED ev
    /\ UNCHANGED << MIDI_AVAILABLE, lg, budget, available_ports, mappings,
                    control_handlers, last_values, expensive_controls, connVars, now,
                    reenabled, last_call, ret, nTableOps, nConnOps, cv >>

\* The test for a last value.
RaceNoise(t) ==
    /\ hd.pc = "noise" /\ hd.thread = t
    /\ hd' = [hd EXCEPT !.pc = IF hd.fn \in DOMAIN last_values
                               THEN "noise_read" ELSE "call"]
    /\ UNCHANGED << MIDI_AVAILABLE, lg, budget, available_ports, tableVars, connVars,
                    now, ev, reenabled, last_call, ret, nTableOps, nConnOps, cv >>

\* The last value is read (KeyError when it has gone since the test) and
\* compared.
RaceNoiseRead(t) ==
    /\ hd.pc = "noise_read" /\ hd.thread = t
    /\ IF hd.fn \notin DOMAIN last_values
       THEN Crash(t)
       ELSE /\ IF FLt(FAbs(FSub(hd.target, last_values[hd.fn])), NoiseFloor(hd.target))
               THEN Finish(t, HdMatch("noise"), FALSE)
               ELSE /\ hd' = [hd EXCEPT !.pc = "call"]
                    /\ UNCHANGED ev
            /\ UNCHANGED << threads, is_running >>
    /\ UNCHANGED << MIDI_AVAILABLE, lg, budget, available_ports, tableVars, midi_input,
                    current_port, midi_thread, ports, now, reenabled, last_call, ret,
                    nTableOps, nConnOps, cv >>

\* The callback is called, and returns or raises.
RaceCall(t, raises) ==
    /\ hd.pc = "call" /\ hd.thread = t
    /\ ev' = Observed(t, HdMsg, HdMatch("invoked"), raises, hd.time)
    /\ last_call' = Put(last_call, hd.fn, hd.time)
    /\ hd' = IF raises THEN NoHd ELSE [hd EXCEPT !.pc = "record_time"]
    /\ UNCHANGED << MIDI_AVAILABLE, lg, budget, available_ports, tableVars, connVars,
                    now, reenabled, ret, nTableOps, nConnOps, cv >>

\* self._last_update_times[function_name] = current_time
RaceRecordTime(t) ==
    /\ hd.pc = "record_time" /\ hd.thread = t
    /\ last_update_times' = Put(last_update_times, hd.fn, hd.time)
    /\ hd' = [hd EXCEPT !.pc = "record_value"]
    /\ UNCHANGED << MIDI_AVAILABLE, lg, budget, available_ports, mappings,
                    control_handlers, last_values, expensive_controls, connVars, now,
                    ev, reenabled, last_call, ret, nTableOps, nConnOps, cv >>

\* self._last_values[function_name] = value
RaceRecordValue(t) ==
    /\ hd.pc = "record_value" /\ hd.thread = t
    /\ last_values' = Put(last_values, hd.fn, hd.target)
    /\ hd' = NoHd
    /\ UNCHANGED << MIDI_AVAILABLE, lg, budget, available_ports, mappings,
                    control_handlers, last_update_times, expensive_controls, connVars,
                    now, ev, reenabled, last_call, ret, nTableOps, nConnOps, cv >>

InitRace ==
    /\ MIDI_AVAILABLE = TRUE
    /\ InitController
    /\ budget = RaceBudget
    /\ cv = NoCv
    /\ lg = NoLg

\* The calls of the caller's thread.
RaceCaller ==
    \/ \E en \in RaceChoices : add_mapping(en)
    \/ \E name \in RaceNames : remove_mapping(name)
    \/ enable_mapping("rotation_x")
    \/ disable_mapping("rotation_x")
    \/ set_control_handler("camera_rot_x", "cb")
    \/ set_throttle_interval("camera_rot_x", 75)
    \/ clear_throttle_state
    \/ connect_to_port("portA", TRUE)
    \/ start_listening

\* The steps of the listener thread.
RaceListener ==
    \/ \E t \in ThreadIds : LoopEnter(t)
    \/ \E t \in ThreadIds, msg \in RaceMessages : RaceTake(t, msg)
    \/ \E t \in ThreadIds : RaceScan(t)
    \/ \E t \in ThreadIds, dt \in TimeSteps \cup {0} : RaceGate(t, dt)
    \/ \E t \in ThreadIds : RaceThrottle(t)
    \/ \E t \in ThreadIds : RaceNoise(t)
    \/ \E t \in ThreadIds : RaceNoiseRead(t)
    \/ \E t \in ThreadIds, raises \in BOOLEAN : RaceCall(t, raises)
    \/ \E t \in ThreadIds : RaceRecordTime(t)
    \/ \E t \in ThreadIds : RaceRecordValue(t)

NextRace == RaceCaller \/ RaceListener

SpecRace == InitRace /\ [][NextRace]_vars

\* --------------------------------------------- the listener under fairness
\* The transport of thread t yields one more message, ends its stream or
\* fails, after the running flag has been cleared.
Wake(t) ==
    /\ ~is_running
    /\ \/ \E msg \in Messages : LoopReceive(t, msg, 0, FALSE)
       \/ LoopStreamEnds(t)
       \/ LoopStreamRaises(t)

\* A thread that was started gets to run, and the transport of a thread
\* that is to stop yields a message or ends.
InitStop ==
    /\ MIDI_AVAILABLE \in BOOLEAN
    /\ InitController
    /\ budget = StopBudget
    /\ cv = NoCv
    /\ lg = NoLg

SpecStop ==
    /\ InitStop
    /\ [][Next]_vars
    /\ \A t \in 1..MaxStopConnOps : WF_vars(LoopEnter(t)) /\ WF_vars(Wake(t))

\* ------------------------------------------------ the conversion on its own
InitConvert ==
    /\ MIDI_AVAILABLE = TRUE
    /\ InitController
    /\ budget = DispatchBudget
    /\ lg = NoLg
    /\ cv \in { [pc |-> "ready", value |-> v, lo |-> r[1], hi |-> r[2],
                 result |-> FZero] : v \in 0..127, r \in ConvertRanges }

\* _convert_midi_value(cv.value, a mapping with range [cv.lo, cv.hi])
Convert ==
    /\ cv.pc = "ready"
    /\ cv' = [cv EXCEPT !.pc = "done",
                        !.result = convert_midi_value(
                                      cv.value, Mapping(0, 0, "f", cv.lo, cv.hi))]
    /\ UNCHANGED << MIDI_AVAILABLE, lg, hd, budget, available_ports, tableVars, connVars, now, ev, reenabled, last_call, ret, nTableOps, nConnOps >>

NextConvert == Convert

SpecConvert == InitConvert /\ [][NextConvert]_vars

\* ------------------------------------------------- the structured-log path
\* molmidial.logger: Logger.json and what it calls.  A text is a sequence of
\* pieces; a JSON string is a sequence of characters; data that is not a
\* string is a list whose items are named by kind.
LOGGING == TRUE

JsonChars == {"[", "]", "1", ",", " "}

\* "num" a number, "obj" an object json cannot encode (a set), "cycle" the
\* list itself
DataItems == {"num", "obj", "cycle"}

LEVEL_EMOJIS(level) ==
    CASE level = "DEBUG"    -> "magnifier"
      [] level = "INFO"     -> "information"
      [] level = "WARNING"  -> "warning-sign"
      [] level = "ERROR"    -> "cross-mark"
      [] level = "CRITICAL" -> "collision"
      [] OTHER              -> "bell"

\* the watched words that occur in the lower-cased piece
WordsIn(piece) ==
    CASE piece = "Failed to serialize JSON" -> {"fail"}
      [] OTHER                              -> {}

InMsg(word, msg) == \E i \in 1..Len(msg) : word \in WordsIn(msg[i])

get_qc_tag(msg) ==
    IF InMsg("success rate", msg) THEN "bar-chart"
    ELSE IF InMsg("updat", msg) \/ InMsg("success", msg) \/ InMsg("passed", msg)
         THEN "check-mark"
    ELSE IF InMsg("fail", msg) \/ InMsg("error", msg) THEN "cross-mark"
    ELSE " "

decorate_log_message(msg, level) ==
    << LEVEL_EMOJIS(level), get_qc_tag(msg) >> \o msg

\* Logger.message: the records of the project logger after the call
message(out, msg, level, silent) ==
    IF LOGGING /\ ~silent
    THEN Append(out, [level |-> level, text |-> decorate_log_message(msg, level)])
    ELSE out

\* Logger.error with an exception, at its default level
error(out, msg, exception) ==
    message(out, msg \o << ": ", exception >>, "ERROR", FALSE)

\* json.loads: the scanner skips white space, reads a number (a run of
\* digits) or an array, and rejects anything left over.  The value is kept
\* as its pieces: a number is one piece, an array its brackets, items and
\* separators.
RECURSIVE SkipWs(_, _)
SkipWs(s, i) == IF i <= Len(s) /\ s[i] = " " THEN SkipWs(s, i + 1) ELSE i

RECURSIVE DigitsEnd(_, _)
DigitsEnd(s, i) == IF i <= Len(s) /\ s[i] = "1" THEN DigitsEnd(s, i + 1) ELSE i

JsonFail == [ok |-> FALSE, next |-> 0, value |-> << >>]

RECURSIVE ParseValue(_, _)
RECURSIVE ParseItems(_, _, _, _)
ParseValue(s, i) ==
    LET j == SkipWs(s, i) IN
    IF j > Len(s) THEN JsonFail
    ELSE IF s[j] = "1"
         THEN [ok |-> TRUE, next |-> DigitsEnd(s, j),
               value |-> << [k \in 1..(DigitsEnd(s, j) - j) |-> "1"] >>]
    ELSE IF s[j] = "[" THEN ParseItems(s, SkipWs(s, j + 1), << << "[" >> >>, TRUE)
    ELSE JsonFail

ParseItems(s, k, acc, first) ==
    IF k > Len(s) THEN JsonFail
    ELSE IF first /\ s[k] = "]"
         THEN [ok |-> TRUE, next |-> k + 1, value |-> Append(acc, << "]" >>)]
    ELSE LET v  == ParseValue(s, k)
             k2 == SkipWs(s, v.next)
         IN  IF ~v.ok \/ k2 > Len(s) THEN JsonFail
             ELSE IF s[k2] = "]"
                  THEN [ok |-> TRUE, next |-> k2 + 1,
                        value |-> Append(acc \o v.value, << "]" >>)]
             ELSE IF s[k2] = ","
                  THEN ParseItems(s, SkipWs(s, k2 + 1),
                                  Append(acc \o v.value, << "," >>), FALSE)
             ELSE JsonFail

loads(s) ==
    LET v == ParseValue(s, 1) IN
    IF v.ok /\ SkipWs(s, v.next) > Len(s) THEN v ELSE JsonFail

\* json.dumps(data, separators=(",", ":")) of a parsed value: every piece
\* written out, nothing between them
RECURSIVE Flatten(_)
Flatten(pieces) ==
    IF pieces = << >> THEN << >> ELSE Head(pieces) \o Flatten(Tail(pieces))

\* json.dumps of a list given by the kinds of its items: the first item the
\* encoder cannot write decides the exception
RECURSIVE EncodeItems(_, _, _)
EncodeItems(items, i, acc) ==
    IF i > Len(items) THEN [ok |-> TRUE, exc |-> "", text |-> Append(acc, "]")]
    ELSE IF items[i] = "obj"
         THEN [ok |-> FALSE, exc |-> "Object of type set is not JSON serializable",
               text |-> << >>]
    ELSE IF items[i] = "cycle"
         THEN [ok |-> FALSE, exc |-> "Circular reference detected", text |-> << >>]
    ELSE EncodeItems(items, i + 1,
                     (IF i > 1 THEN Append(acc, ",") ELSE acc) \o << "1" >>)

dumps(data) ==
    IF data.isstr THEN [ok |-> TRUE, exc |-> "", text |-> Flatten(data.body)]
    ELSE EncodeItems(data.body, 1, << "[" >>)

\* Logger.json(data, silent): the records logged by the call
json(data, silent) ==
    LET parsed == loads(data.body) IN
    IF data.isstr /\ ~parsed.ok
    THEN message(<< >>, << "Invalid JSON string provided." >>, "WARNING", FALSE)
    ELSE LET value   == IF data.isstr THEN [isstr |-> TRUE, body |-> parsed.value]
                                      ELSE data
             compact == dumps(value)
         IN  IF ~compact.ok
             THEN error(<< >>, << "Failed to serialize JSON" >>, compact.exc)
             ELSE IF ~silent THEN message(<< >>, compact.text, "INFO", FALSE)
             ELSE << >>

Payloads ==
    { [isstr |-> TRUE, body |-> b] :
         b \in UNION { [1..n -> JsonChars] : n \in 0..MaxChars } }
    \cup
    { [isstr |-> FALSE, body |-> b] :
         b \in UNION { [1..n -> DataItems] : n \in 0..MaxItems } }

InitLog ==
    /\ MIDI_AVAILABLE = TRUE
    /\ InitController
    /\ budget = DispatchBudget
    /\ cv = NoCv
    /\ lg \in { [pc |-> "ready", data |-> d, silent |-> b, out |-> << >>] :
                 d \in Payloads, b \in BOOLEAN }

\* Logger.json(lg.data, lg.silent) returns
LogJson ==
    /\ lg.pc = "ready"
    /\ lg' = [lg EXCEPT !.pc = "done", !.out = json(lg.data, lg.silent)]
    /\ UNCHANGED << MIDI_AVAILABLE, cv, hd, budget, available_ports, tableVars, connVars, now, ev, reenabled, last_call, ret, nTableOps, nConnOps >>

NextLog == LogJson

SpecLog == InitLog /\ [][NextLog]_vars

\* ================================================================== claims
Min(a, b) == IF a < b THEN a ELSE b

\* The exact value of float x in units of 2^e, for e <= x.e (0 for zero).
Units(x, e) == IF x.m = 0 THEN 0 ELSE x.m * 2^(x.e - e)

\* The exponent of x, or that of y when x is zero.
ExpOr(x, y) == IF x.m = 0 THEN y.e ELSE x.e

\* hi - lo is a float: the subtraction of the conversion does not round.
SubExact(hi, lo) ==
    LET d == FSub(hi, lo)
        e == Min(Min(ExpOr(hi, lo), ExpOr(lo, hi)), ExpOr(d, hi))
    IN  Units(d, e) = Units(hi, e) - Units(lo, e)

\* 127 * |result - (lo + (v / 127) * (hi - lo))| in units of 2^e, exactly.
ConvertError127(v, lo, hi, result, e) ==
    Abs(127 * Units(result, e)
          - (127 * Units(lo, e) + v * (Units(hi, e) - Units(lo, e))))

\* Four roundings, each within 2^-Prec of its operand: 127 times the bound
\* 2^(3 - Prec) * (|lo| + |hi|), in units of 2^e.
ConvertBound127(lo, hi, e) ==
    (127 * 8 * (Abs(Units(lo, e)) + Abs(Units(hi, e)))) \div 2^Prec

CvExp == Min(Min(ExpOr(cv.lo, cv.hi), ExpOr(cv.hi, cv.lo)), ExpOr(cv.result, cv.lo))

\* C1: the conversion of 0 is exactly target_min and the
\* conversion of 127 is exactly target_max, for every target range.
C1_ExactEndpoints ==
    cv.pc = "done" =>
        /\ cv.value = 0 => cv.result = cv.lo
        /\ cv.value = 127 => cv.result = cv.hi

\* C1 (what the code does guarantee): the conversion of v is
\* lo + (v/127)*(hi-lo) up to the rounding of its four floating-point
\* operations; the conversion of 0 is exactly lo; the conversion of 127 is
\* lo + (hi - lo) as the floats compute it, which is exactly hi whenever
\* hi - lo is computed without rounding.
C1_ConvertRounded ==
    cv.pc = "done" =>
        /\ ConvertError127(cv.value, cv.lo, cv.hi, cv.result, CvExp)
              <= ConvertBound127(cv.lo, cv.hi, CvExp)
        /\ cv.value = 0 => cv.result = cv.lo
        /\ cv.value = 127 => cv.result = FAdd(cv.lo, FSub(cv.hi, cv.lo))
        /\ cv.value = 127 /\ SubExact(cv.hi, cv.lo) => cv.result = cv.hi

\* A range with a non-integer bound whose top raw value lands exactly on hi.
C1_Witness ==
    /\ cv.pc = "done"
    /\ cv.value = 127
    /\ cv.lo.e < 0
    /\ SubExact(cv.hi, cv.lo)
    /\ cv.result = cv.hi

\* ------------------------------------------------- claims on the dispatch
\* The step is one iteration of the listener loop.
EventStep == ev'.seq = ev.seq + 1

\* Event e went through _handle_control_change.
Dispatched(e) == e.type = "control_change" /\ e.gate \notin {"stopped", "ignored"}

\* Event e matched a mapping and went on to _call_control_handler.
Routed(e) == Dispatched(e) /\ e.fn # "none"

\* max(0.001, |value| * 0.001), as the specification words the noise floor.
Floor(value) ==
    LET rel == FMul(FAbs(value), Dec(1, 1000))
    IN  IF FLt(Dec(1, 1000), rel) THEN rel ELSE Dec(1, 1000)

\* The change from the value last delivered to f is below the noise floor.
BelowFloor(f, value) ==
    /\ f \in DOMAIN last_values
    /\ FLt(FAbs(FSub(value, last_values[f])), Floor(value))

\* Less than the throttle interval of f has passed at time t since the last
\* delivery to f.
WithinInterval(f, t) ==
    /\ f \in DOMAIN last_update_times
    /\ t - last_update_times[f] < ThrottleInterval(f)

\* The step leaves the throttle state alone and calls no callback.
ThrottleUntouched == UNCHANGED << last_update_times, last_values, last_call >>

\* C2: two events for function f less than the throttle interval of f apart
\* cause at most one call of f's callback, whatever the callback does: a
\* call of the callback is at least one interval after the previous call
\* (no clear_throttle_state in between).
C2_AtMostOneCallPerInterval ==
    [][ (EventStep /\ ev'.gate = "invoked" /\ ev'.fn \in DOMAIN last_call)
           => ev'.time - last_call[ev'.fn] >= ThrottleInterval(ev'.fn) ]_vars

\* C3: with a callback registered for f, the first event for f, and every
\* later event at least one throttle interval after the last delivery to f
\* whose value differs from the last delivered value by the noise floor or
\* more, calls the callback.
C3_DeliversWhenDue ==
    [][ (/\ EventStep
         /\ Routed(ev')
         /\ ev'.fn \in DOMAIN control_handlers
         /\ \/ ev'.fn \notin DOMAIN last_update_times \cup DOMAIN last_values
            \/ /\ ~WithinInterval(ev'.fn, ev'.time)
               /\ ~BelowFloor(ev'.fn, ev'.target))
           => /\ ev'.gate = "invoked"
              /\ ev'.fn \in DOMAIN last_call'
              /\ last_call'[ev'.fn] = ev'.time ]_vars

\* A later event, one interval or more after a delivery and with another
\* value, is delivered.
C3_Witness ==
    /\ ev.gate = "invoked"
    /\ ~ev.raised
    /\ ev.had
    /\ ev.time - ev.prev_time >= throttle_interval
    /\ ev.target # ev.prev_value

EnabledMatches(control, channel) ==
    {i \in 1..Len(mappings) : Matches(mappings[i].mapping, control, channel)}

\* The least element of a non-empty set of indices.
First(S) == CHOOSE i \in S : \A j \in S : i <= j

\* The functions whose callback the step calls.
Called == {g \in DOMAIN last_call' : g \notin DOMAIN last_call
                                       \/ last_call'[g] # last_call[g]}

\* C5: an event for a (control, channel) pair is dispatched to the target
\* function of the first enabled mapping, in table order, with that pair,
\* and to no other: no callback of a later mapping with the pair is called,
\* also when a gate drops the dispatch to the first.
C5_FirstMatchWins ==
    [][ (EventStep /\ Dispatched(ev'))
           => LET S == EnabledMatches(ev'.control, ev'.channel)
              IN  IF S = {}
                  THEN ev'.name = "none" /\ ev'.gate = "nomatch" /\ Called = {}
                  ELSE /\ ev'.name = mappings[First(S)].name
                       /\ ev'.fn = mappings[First(S)].mapping.target_function
                       /\ Called \subseteq {mappings[First(S)].mapping.target_function}
      ]_vars

\* Two enabled mappings shared the pair of the event, a gate dropped the
\* dispatch through the first, and nothing was called.
C5_Witness ==
    /\ ev.matches >= 2
    /\ ev.gate \in {"nohandler", "throttled", "noise"}
    /\ ev.name = mappings[1].name
    /\ \E i \in 2..Len(mappings) :
          /\ Matches(mappings[i].mapping, ev.control, ev.channel)
          /\ mappings[i].mapping.target_function # ev.fn
          /\ mappings[i].mapping.target_function \in DOMAIN control_handlers

\* C6: disable_mapping(name) leaves the mapping disabled and
\* enable_mapping(name) leaves it enabled; no event is dispatched through a
\* disabled mapping, and an event that an enabled mapping matches is
\* dispatched.
C6_DisableEnable ==
    [][ /\ \A name \in MappingNames :
              /\ disable_mapping(name)
                    => \A i \in IndexOf(mappings', name) : ~mappings'[i].mapping.enabled
              /\ enable_mapping(name)
                    => \A i \in IndexOf(mappings', name) : mappings'[i].mapping.enabled
        /\ (EventStep /\ Dispatched(ev'))
              => /\ \A i \in 1..Len(mappings) :
                       ~mappings[i].mapping.enabled => ev'.name # mappings[i].name
                 /\ (\E i \in 1..Len(mappings) :
                        /\ mappings[i].mapping.enabled
                        /\ mappings[i].mapping.control_number = ev'.control
                        /\ mappings[i].mapping.channel = ev'.channel)
                       => ev'.name # "none"
      ]_vars

\* An event was delivered through a mapping that had been disabled and
\* enabled again.
C6_Witness ==
    /\ ev.reenabled
    /\ ev.name = "zoom"
    /\ ev.gate = "invoked"

\* C7: when a callback raises, the listener thread goes on: it is still
\* running, is_running is still set, and later events are handled.
C7_CallbackErrorContained ==
    [][ (EventStep /\ ev'.raised)
           => /\ threads' = threads
              /\ threads'[ev'.thread].state = "running"
              /\ is_running' /\ is_running ]_vars

\* After a callback raised, the same thread delivered a later event.
C7_Witness ==
    /\ ev.after_raise
    /\ ev.gate = "invoked"
    /\ ~ev.raised
    /\ is_running
    /\ threads[ev.thread].state = "running"

\* C8: an event whose mapping targets a function without a registered
\* callback is skipped: nothing is called or raised, the listener goes on
\* and the throttle state is as before.
C8_NoHandlerSkipped ==
    [][ (EventStep /\ Routed(ev') /\ ev'.fn \notin DOMAIN control_handlers)
           => /\ ev'.gate = "nohandler"
              /\ ~ev'.raised
              /\ ThrottleUntouched
              /\ UNCHANGED << threads, is_running >> ]_vars

\* An event for a function without callback was skipped while the throttle
\* state held an entry, and the listener runs.
C8_Witness ==
    /\ ev.gate = "nohandler"
    /\ DOMAIN last_update_times # {}
    /\ is_running
    /\ threads[ev.thread].state = "running"

\* C9: clear_throttle_state empties last times and last values, and with
\* both empty the next event for a function with a callback is delivered,
\* whatever its time and value.
C9_ClearDelivers ==
    [][ /\ clear_throttle_state
           => last_update_times' = EmptyMap /\ last_values' = EmptyMap
        /\ (/\ EventStep
            /\ Routed(ev')
            /\ ev'.fn \in DOMAIN control_handlers
            /\ last_update_times = EmptyMap
            /\ last_values = EmptyMap)
           => ev'.gate = "invoked"
      ]_vars

\* The value that the noise gate dropped at the previous event was
\* delivered at this one, the throttle state having been cleared.
C9_Witness ==
    /\ ev.resurrected
    /\ ev.gate = "invoked"
    /\ ~ev.raised

\* C10: the callback is called only for an event that passes the three
\* gates, tested in order (handler registered, interval elapsed, change at
\* or above the noise floor); last time and last value change only at an
\* event whose callback is called, and then only those of its function
\* (the one other step that changes them is clear_throttle_state, which
\* empties both).
C10_GatesAndFrame ==
    [][ /\ ~EventStep
           => \/ UNCHANGED << last_update_times, last_values >>
              \/ last_update_times' = EmptyMap /\ last_values' = EmptyMap
        /\ EventStep
           => LET f == ev'.fn
                  registered == Routed(ev') /\ f \in DOMAIN control_handlers
                  elapsed    == ~WithinInterval(f, ev'.time)
                  changed    == ~BelowFloor(f, ev'.target)
              IN  /\ ev'.gate = "invoked" <=> (registered /\ elapsed /\ changed)
                  /\ ev'.gate = "throttled" => registered /\ ~elapsed
                  /\ ev'.gate = "noise" => registered /\ elapsed /\ ~changed
                  /\ ev'.gate # "invoked" => ThrottleUntouched
                  /\ (last_update_times' # last_update_times
                         \/ last_values' # last_values)
                        => /\ ev'.gate = "invoked"
                           /\ last_update_times' = Put(last_update_times, f, ev'.time)
                           /\ last_values' = Put(last_values, f, ev'.target)
      ]_vars

\* A throttled event left last time and last value of its function as the
\* last delivery set them.
C10_Witness ==
    /\ ev.gate = "throttled"
    /\ ev.had
    /\ ev.target # ev.prev_value
    /\ last_update_times[ev.fn] = ev.prev_time
    /\ last_values[ev.fn] = ev.prev_value

\* ---------------------------------- claims on the connection and listener
\* The listener threads that have not ended.
AliveThreads == {t \in DOMAIN threads : Alive(t)}

\* The controller's state as its caller sees it.
Idle == ~is_connected /\ ~is_listening

\* C11: start_listening returns False, starts no thread and changes nothing
\* when no input is connected or a listener already runs; connected and not
\* listening, it returns True, starts one thread and the controller listens.
C11_StartListening ==
    [][ start_listening
           => IF ~is_connected \/ is_listening
              THEN /\ ret' = [op |-> "start_listening", result |-> FALSE,
                              names |-> << >>]
                   /\ UNCHANGED << tableVars, connVars, available_ports >>
              ELSE /\ ret' = [op |-> "start_listening", result |-> TRUE,
                              names |-> << >>]
                   /\ is_listening' /\ is_connected'
                   /\ Len(threads') = Len(threads) + 1
                   /\ midi_thread' = Len(threads')
                   /\ Alive(midi_thread)' ]_vars

\* start_listening was refused because the listener runs already.
C11_Witness ==
    /\ ret.op = "start_listening"
    /\ ~ret.result
    /\ is_connected
    /\ is_listening
    /\ Cardinality(AliveThreads) = 1

\* C12: stop_listening called while connected and listening leaves the
\* controller connected and not listening, with the port it had.
C12_StopLeavesConnected ==
    [][ (stop_listening /\ is_connected /\ is_listening)
           => /\ ~is_listening'
              /\ is_connected'
              /\ current_port' = current_port
              /\ midi_input' = midi_input
              /\ ports' = ports ]_vars

\* connect_to_port, start_listening and stop_listening were called, in that
\* order: the one thread has not seen the flag yet.
C12_Witness ==
    /\ nConnOps = 3
    /\ Len(threads) = 1
    /\ Alive(1)
    /\ ~is_listening
    /\ is_connected
    /\ current_port = "portA"

\* C13: disconnect leaves the controller idle, whatever state it is called
\* in: neither connected nor listening (stated for a transport whose close()
\* returns).
C13_DisconnectLeavesIdle ==
    [][ disconnect(TRUE) => (~is_connected' /\ ~is_listening') ]_vars

\* C14: connect_to_port returns True exactly when the transport opens the
\* endpoint, and then the controller is connected to the port asked for;
\* when the endpoint cannot be opened it returns False, the transport is
\* asked once, and a controller that was idle is idle still.
C14_ConnectToPort ==
    [][ \A p \in PortNames, ok \in BOOLEAN :
           connect_to_port(p, ok)
              => LET opened == /\ Len(ports') = Len(ports) + 1
                               /\ ports'[Len(ports')] = "open"
                 IN  /\ ret'.op = "connect_to_port"
                     /\ ret'.result <=> opened
                     /\ opened <=> (MIDI_AVAILABLE /\ p \in AvailablePorts)
                     /\ ret'.result => /\ is_connected'
                                       /\ current_port' = p
                                       /\ midi_input' = Len(ports')
                     /\ ~ret'.result => Len(ports') = Len(ports)
                     /\ (~ret'.result /\ Idle) => (Idle' /\ ports' = ports)
                     /\ UNCHANGED << is_running, threads, midi_thread >> ]_vars

\* With the transport there, an endpoint that cannot be opened was asked for
\* from the idle state, and the controller is idle.
C14_Witness ==
    /\ MIDI_AVAILABLE
    /\ ret.op = "connect_to_port"
    /\ ~ret.result
    /\ ports = << >>
    /\ Idle

\* C15: on every way out of the listener loop (the stop flag seen, the
\* stream at its end, an exception in the loop) is_running is reset, and
\* only start_listening sets it: from the end of the loop to the next
\* start_listening, is_listening() is false.
C15_ExitResetsRunning ==
    [][ /\ \A t \in DOMAIN threads :
              (Alive(t) /\ ~Alive(t)')
                 => /\ threads'[t].state \in {"stopped", "ended", "raised"}
                    /\ ~is_listening'
        /\ (~is_listening /\ is_listening')
              => /\ start_listening
                 /\ Len(threads') = Len(threads) + 1 ]_vars

\* One loop ended on the stop flag and a later one on the stream's end or on
\* an exception; is_listening() is false.
C15_Witness ==
    /\ ~is_listening
    /\ AliveThreads = {}
    /\ \E t1, t2 \in DOMAIN threads :
          /\ threads[t1].state = "stopped"
          /\ threads[t2].state \in {"ended", "raised"}

\* C16: at most one listener thread of the controller is alive at any
\* time.
C16_OneListenerThread == Cardinality(AliveThreads) <= 1

\* C17: without the transport library every connect_to_port returns False,
\* no endpoint is opened, list_available_ports returns the empty list and
\* the controller is idle in every state.
C17_UnavailableStaysIdle ==
    ~MIDI_AVAILABLE
       => /\ Idle
          /\ midi_input = 0 /\ current_port = "None"
          /\ ports = << >>
          /\ threads = << >>
          /\ available_ports = << >>
          /\ ret.op = "connect_to_port" => ~ret.result
          /\ ret.op = "list_available_ports" => ret.names = << >>
          /\ ret.op = "start_listening" => ~ret.result

\* Without the transport library, a third or later call on the connection
\* was a connect_to_port, and it failed.
C17_Witness ==
    /\ ~MIDI_AVAILABLE
    /\ nConnOps >= 3
    /\ ret.op = "connect_to_port"
    /\ ~ret.result

\* The interval that applies to f: its own when it has one, the default
\* otherwise.
IntervalOf(f) ==
    IF f \in DOMAIN expensive_controls THEN expensive_controls[f] ELSE 50

\* C18: the throttle test of an event for f uses f's own interval when f
\* has one (one of the three set at construction, or the one of the latest
\* set_throttle_interval for f) and the default interval otherwise.
C18_IntervalApplied ==
    [][    /\ nTableOps = 0
              => expensive_controls
                    = [x \in {"connolly_transparency", "connolly_probe_radius",
                              "isosurface_level"}
                         |-> IF x = "isosurface_level" THEN 100 ELSE 200]
           /\ \A f \in ThrottleNames, iv \in Intervals :
                 set_throttle_interval(f, iv)
                    => /\ f \in DOMAIN expensive_controls'
                       /\ expensive_controls'[f] = iv
                       /\ \A g \in DOMAIN expensive_controls \ {f} :
                             /\ g \in DOMAIN expensive_controls'
                             /\ expensive_controls'[g] = expensive_controls[g]
           /\ (/\ EventStep
               /\ Routed(ev')
               /\ ev'.fn \in DOMAIN control_handlers
               /\ ev'.fn \in DOMAIN last_update_times)
                 => (ev'.gate = "throttled"
                        <=> ev'.time - last_update_times[ev'.fn] < IntervalOf(ev'.fn))
         ]_vars

\* An event was throttled although the default interval had passed since
\* the last delivery: the function has a longer interval of its own.
C18_Witness ==
    /\ ev.gate = "throttled"
    /\ ev.had
    /\ ev.time - ev.prev_time >= throttle_interval
    /\ ev.fn \in DOMAIN expensive_controls
    /\ ev.time - ev.prev_time < expensive_controls[ev.fn]

\* C19: a message of another kind than control_change, received while the
\* listener runs, has no effect: no callback is called, the table, the
\* registry and the throttle state are as before and the loop goes on.
C19_OtherKindsIgnored ==
    [][ (EventStep /\ ev'.type # "control_change" /\ is_listening)
           => /\ ev'.gate = "ignored"
              /\ ~ev'.raised
              /\ UNCHANGED << tableVars, last_call, connVars >>
              /\ threads'[ev'.thread].state = "running" ]_vars

\* With a throttle entry in place, a note or another message was received
\* and the listener runs on.
C19_Witness ==
    /\ ev.type \in {"note_on", "note_off", "pitchwheel"}
    /\ ev.gate = "ignored"
    /\ DOMAIN last_update_times # {}
    /\ is_listening
    /\ threads[ev.thread].state = "running"

\* C20: the value a callback gets, the conversion of a raw value in 0..127
\* under the mapping that matched, lies within the mapping's
\* [target_min, target_max].
C20_ValueInRange ==
    cv.pc = "done" => (~FLt(cv.result, cv.lo) /\ ~FLt(cv.hi, cv.result))

\* ------------------------------------------------ claims on the log path
Malformed(data) ==
    \/ data.isstr /\ ~loads(data.body).ok
    \/ ~data.isstr /\ \E i \in 1..Len(data.body) : data.body[i] \in {"obj", "cycle"}

\* C21: Logger.json given a malformed payload (a string that is not valid
\* JSON, or data that cannot be serialized) returns having logged exactly one
\* record, at WARNING level, whose text holds none of the payload.  The code
\* reports data that cannot be serialized through Logger.error, at ERROR.
C21_MalformedIsWarning ==
    (lg.pc = "done" /\ Malformed(lg.data)) =>
        /\ Len(lg.out) = 1
        /\ lg.out[1].level = "WARNING"
        /\ lg.out[1].text \in
              { decorate_log_message(<< "Invalid JSON string provided." >>, "WARNING") }
              \cup
              { decorate_log_message(<< "Failed to serialize JSON", ": ", x >>, "WARNING") :
                    x \in {"Object of type set is not JSON serializable",
                           "Circular reference detected"} }

\* ------------------------------------------- claims on the throttle state
\* The operations that are not to touch the throttle state.
ThrottleFrameOp ==
    \/ \E en \in AddChoices : add_mapping(en)
    \/ \E name \in MappingNames : remove_mapping(name)
    \/ \E name \in MappingNames : enable_mapping(name)
    \/ \E name \in MappingNames : disable_mapping(name)
    \/ \E fn \in HandlerNames : set_control_handler(fn, "cb")
    \/ \E fn \in ThrottleNames, iv \in Intervals : set_throttle_interval(fn, iv)
    \/ \E p \in PortNames, ok \in BOOLEAN : connect_to_port(p, ok)
    \/ start_listening
    \/ stop_listening
    \/ \E ok \in BOOLEAN : disconnect(ok)

\* The functions with a throttle entry.
Throttled == DOMAIN last_update_times \cup DOMAIN last_values

\* C25: the throttle entry of a function (last time, last value) appears
\* with a delivered dispatch to the function and at no other step, it goes
\* away with clear_throttle_state and at no other step, and add_mapping,
\* remove_mapping, enable_mapping, disable_mapping, set_control_handler,
\* set_throttle_interval, connect_to_port, start_listening, stop_listening
\* and disconnect leave last times and last values as they are.
C25_ThrottleEntryLifetime ==
    [][ /\ (last_update_times' # last_update_times \/ last_values' # last_values)
              => ~ThrottleFrameOp
        /\ \A f \in Throttled' \ Throttled :
              /\ EventStep
              /\ ev'.fn = f /\ ev'.gate = "invoked" /\ ~ev'.raised
              /\ f \in DOMAIN last_update_times' /\ last_update_times'[f] = ev'.time
              /\ f \in DOMAIN last_values' /\ last_values'[f] = ev'.target
        /\ \A f \in Throttled :
              (f \notin DOMAIN last_update_times' \/ f \notin DOMAIN last_values')
                 => /\ nTableOps' = nTableOps + 1
                    /\ last_update_times' = EmptyMap
                    /\ last_values' = EmptyMap
                    /\ UNCHANGED << mappings, control_handlers, expensive_controls,
                                    connVars, ev >>
      ]_vars

\* The mapping that delivered the last event has been removed from the
\* table and the entry of its function is in place.
C25_Witness ==
    /\ ev.gate = "invoked"
    /\ ~ev.raised
    /\ ~HasName(mappings, ev.name)
    /\ ev.fn \in DOMAIN last_update_times
    /\ last_update_times[ev.fn] = ev.time
    /\ last_values[ev.fn] = ev.target

\* C26: every throttle interval in effect, the default and the one of every
\* function that has its own, is at least zero.  set_throttle_interval
\* stores its argument as it is.
C26_IntervalsNonNegative ==
    /\ throttle_interval >= 0
    /\ \A f \in DOMAIN expensive_controls : expensive_controls[f] >= 0

\* C27: a callback that raises leaves last time and last value of its
\* function as they were, and the next event for the function is gated
\* against the entry of the delivery before the failed call: it is throttled
\* exactly when that entry is still there and less than the interval has
\* passed since its time, and it is not gated at all when there was none.
C27_RaiseStartsNoWindow ==
    [][ /\ (EventStep /\ ev'.raised)
           => /\ ev'.gate = "invoked"
              /\ UNCHANGED << last_update_times, last_values >>
        /\ (/\ EventStep
            /\ ev.raised
            /\ Routed(ev')
            /\ ev'.fn = ev.fn)
           => /\ ev'.gate # "nohandler"
              /\ ~ev.had => ev'.gate = "invoked"
              /\ ev'.had => /\ ev.had
                            /\ ev'.prev_time = ev.prev_time
                            /\ ev'.prev_value = ev.prev_value
              /\ ev'.gate = "throttled"
                    <=> /\ ev'.had
                        /\ ev'.time - ev.prev_time < IntervalOf(ev.fn)
      ]_vars

\* The second event was delivered less than the interval after the first,
\* whose callback raised (the two readings of the clock are equally far
\* apart): there was no delivery before, and the failed call started no
\* window.
C27_Witness ==
    /\ ev.seq = 2
    /\ ev.after_raise
    /\ DOMAIN control_handlers = {ev.fn}
    /\ ev.gate = "invoked"
    /\ ~ev.raised
    /\ ~ev.had
    /\ \E d \in TimeSteps : d < ThrottleInterval(ev.fn) /\ ev.time = 2 * d

\* ------------------------------------------ claims on the transport input
\* C28: in every reachable state is_listening() implies is_connected(), after
\* any sequence of connect_to_port, start_listening, stop_listening and
\* disconnect calls.  disconnect closes the input and leaves the running
\* flag as it is.
C28_ListeningImpliesConnected == is_listening => is_connected

\* The handles the transport holds open.
OpenHandles == {i \in DOMAIN ports : ports[i] = "open"}

\* C29: at most one input handle is open at any time, and a handle the
\* controller no longer refers to has been closed.  A close() that raises
\* inside disconnect is logged, and connect_to_port goes on to open the new
\* input and to overwrite the reference.
C29_OneOpenHandle ==
    /\ Cardinality(OpenHandles) <= 1
    /\ \A i \in DOMAIN ports : i # midi_input => ports[i] = "closed"

\* ------------------------------------------------- claims on the stopping
\* C24: stop_listening returns whether or not the listener has ended: it can
\* be called in every state, clears the running flag and leaves the threads
\* as they are.  A message received with the flag cleared ends the thread
\* that received it and calls no callback.  And a listener thread that is
\* alive with the flag cleared ends, or a later start_listening sets the
\* flag again, given that its transport yields one more message or ends.
C24_StopIsCooperative ==
    /\ []((Steps < budget.steps /\ nConnOps < budget.conn) => ENABLED stop_listening)
    /\ [][ /\ stop_listening => (~is_running' /\ UNCHANGED threads)
           /\ (EventStep /\ ~is_running)
                 => /\ ev'.gate = "stopped"
                    /\ ~ev'.raised
                    /\ Alive(ev'.thread)
                    /\ threads'[ev'.thread].state = "stopped"
                    /\ UNCHANGED << last_call, last_update_times, last_values >>
         ]_vars
    /\ \A t \in 1..MaxStopConnOps :
          (Alive(t) /\ ~is_running) ~> (~Alive(t) \/ is_running)

\* stop_listening returned with the thread still alive, and the next
\* message ended the thread.
C24_Witness ==
    /\ ev.gate = "stopped"
    /\ ev.thread \in DOMAIN threads
    /\ threads[ev.thread].state = "stopped"
    /\ ~is_running
    /\ ret.op = "start_listening"
    /\ ret.result

\* ------------------------------------- claims on the key of throttle state
\* The entries of the functions in S are the same before and after the step.
SameEntries(S) ==
    \A g \in S :
       /\ g \in DOMAIN last_update_times <=> g \in DOMAIN last_update_times'
       /\ g \in DOMAIN last_values <=> g \in DOMAIN last_values'
       /\ g \in DOMAIN last_update_times => last_update_times'[g] = last_update_times[g]
       /\ g \in DOMAIN last_values => last_values'[g] = last_values[g]

\* C30: throttle state is kept per target function.  An event whose mapping
\* targets f leaves the entry of every other function as it is and creates
\* none but f's; and an event for f that comes through another mapping than
\* the one of the last delivery to f is gated against that delivery: it is
\* throttled exactly when less than f's interval has passed since, and
\* dropped as noise exactly when it is not throttled and its value is within
\* the noise floor of the value delivered.
C30_KeyedByFunction ==
    [][ /\ (EventStep /\ Routed(ev'))
           => SameEntries((Throttled \cup Throttled') \ {ev'.fn})
        /\ (/\ EventStep
            /\ ev.gate = "invoked" /\ ~ev.raised
            /\ Routed(ev')
            /\ ev'.fn = ev.fn
            /\ ev'.name # ev.name
            /\ ev.fn \in DOMAIN last_update_times)
           => /\ last_update_times[ev.fn] = ev.time
              /\ last_values[ev.fn] = ev.target
              /\ ev'.gate = "throttled" <=> ev'.time - ev.time < IntervalOf(ev.fn)
              /\ ev'.gate = "noise"
                    <=> /\ ev'.time - ev.time >= IntervalOf(ev.fn)
                        /\ FLt(FAbs(FSub(ev'.target, ev.target)), Floor(ev'.target))
      ]_vars

\* An event through the second mapping for camera_zoom was throttled by a
\* delivery through "zoom" (a value below zero is in the range of "zoom"
\* only), with the entry of another function in place.
C30_Witness ==
    /\ ev.name = "zoom_fine"
    /\ ev.fn = "camera_zoom"
    /\ ev.gate = "throttled"
    /\ ev.had
    /\ FLt(ev.prev_value, FZero)
    /\ "camera_rot_x" \in DOMAIN last_update_times

\* ------------------------------------------------ claims on the two threads
\* C22: at the moment a callback is called, the mapping that matched the
\* event is enabled, however disable_mapping on the caller's thread falls
\* between the steps of the listener.  The listener tests the flag once,
\* when the iterator yields the mapping, and takes no lock.
C22_EnabledWhenCalled ==
    [][ (\E t \in ThreadIds, raises \in BOOLEAN : RaceCall(t, raises))
           => hd.enabled ]_vars

\* A call of the caller's thread that changes the mapping table or the
\* throttle state.
CallerMutation ==
    \/ \E en \in RaceChoices : add_mapping(en)
    \/ \E name \in RaceNames : remove_mapping(name)
    \/ set_throttle_interval("camera_rot_x", 75)
    \/ clear_throttle_state

\* A listener thread ends with an exception inside the handling of an event.
ListenerCrashes ==
    \E t \in ThreadIds : /\ hd.thread = t
                         /\ threads[t].state = "running"
                         /\ threads'[t].state = "raised"

\* C23: while the listener is in the middle of handling an event, no
\* add_mapping, remove_mapping, set_throttle_interval or clear_throttle_state
\* of the caller takes effect, and the handling of an event never ends the
\* listener loop.  Nothing in the code keeps the two threads apart.
C23_MutualExclusion ==
    [][ hd.pc # "idle" => (~CallerMutation /\ ~ListenerCrashes) ]_vars

\* ------------------------------------------- claims on the default table
\* The table is the one _setup_default_mappings built: no add_mapping,
\* remove_mapping, enable_mapping or disable_mapping has changed it.
FreshTable(tb) == tb = DefaultMappings

\* Every mapping enabled, no two entries with the same name, the same
\* (control_number, channel) pair or the same target function, and every
\* target range with target_min < target_max.
TableSound(tb) ==
    /\ \A i \in 1..Len(tb) :
          /\ tb[i].mapping.enabled
          /\ FLt(tb[i].mapping.target_min, tb[i].mapping.target_max)
    /\ \A i, j \in 1..Len(tb) :
          i # j => /\ tb[i].name # tb[j].name
                   /\ << tb[i].mapping.control_number, tb[i].mapping.channel >>
                         # << tb[j].mapping.control_number, tb[j].mapping.channel >>
                   /\ tb[i].mapping.target_function # tb[j].mapping.target_function

\* The entries of the table with the pair (control, channel), enabled or not.
PairEntries(control, channel) ==
    {i \in 1..Len(mappings) : /\ mappings[i].mapping.control_number = control
                              /\ mappings[i].mapping.channel = channel}

\* C31: in the mapping table built at construction every mapping is enabled,
\* no two mappings share a (control_number, channel) pair, no two share a
\* target function and every target range has target_min < target_max; so
\* an event handled on the fresh table finds at most one mapping with its
\* pair, no entry stands behind the one that matched, and the callback of at
\* most one target function is called.  The table is examined where it
\* comes into being: in the state construction leaves, before any call or
\* message, and after every call that changes the table.
C31_DefaultTableSound ==
    [][ /\ (Steps = 0 /\ FreshTable(mappings)) => TableSound(mappings)
        /\ (nTableOps' # nTableOps /\ mappings' # mappings /\ FreshTable(mappings'))
              => TableSound(mappings')
        /\ (EventStep /\ Dispatched(ev') /\ FreshTable(mappings))
              => /\ ev'.matches <= 1
                 /\ Cardinality(PairEntries(ev'.control, ev'.channel)) <= 1
                 /\ Called \subseteq {ev'.fn}
                 /\ Routed(ev') <=> ev'.matches = 1
      ]_vars

\* The mod wheel was turned on the fresh table: "zoom" alone matched and the
\* callback of camera_zoom was called.
C31_Witness ==
    /\ FreshTable(mappings)
    /\ ev.control = 1 /\ ev.channel = 0
    /\ ev.name = "zoom" /\ ev.fn = "camera_zoom"
    /\ ev.gate = "invoked"
    /\ ev.matches = 1
    /\ PairEntries(ev.control, ev.channel) = {1}

====
